---- MODULE Spec2Model ----
(***************************************************************************)
(* The conversational client of Cyber-RAG (the Chatbot component): the     *)
(* message list, the input buffer, the loading flag and the asynchronous   *)
(* sendMessage handler with its two awaits (fetch, response.json()).       *)
(*                                                                         *)
(* Text is a sequence of pieces.  A piece is a one-character string for    *)
(* text the code inspects character by character (user input, CVE ids),    *)
(* and a longer literal for fixed template text; string concatenation is   *)
(* \o.                                                                     *)
(***************************************************************************)
EXTENDS Integers, Sequences, FiniteSets, TLC

VARIABLES
    messages,   \* useState: the conversation, a sequence of message records
    input,      \* useState: the input buffer
    loading,    \* useState: the loading flag
    inflight,   \* the sendMessage invocations suspended at an await
    calls,      \* every fetch() issued so far, in order (the backend's view)
    now,        \* the clock read by new Date()
    lastEvent   \* the handler or continuation that ran last

vars == <<messages, input, loading, inflight, calls, now, lastEvent>>

\* Accepted submissions explored per behaviour.
MaxSubmits == 2

\* The dashboard (News) and the placeholder chatbot are separate components
\* with state of their own.
VARIABLES
    selectedFilter,     \* News useState: the time-period filter
    selectedSeverity,   \* News useState: the severity filter
    cves,               \* News useState: the displayed CVE list
    newsLoading,        \* News useState: the loading flag
    selectedCVE,        \* News useState: the CVE shown in the modal
    newsInflight,       \* the fetchCVEs invocations suspended at an await
    newsCalls,          \* every fetchCVEs invocation so far: its request, how it ended
    botMessages,        \* placeholder Chatbot useState: the messages
    botInput,           \* placeholder Chatbot useState: the input buffer
    botTimers,          \* placeholder Chatbot: setTimeout callbacks not yet run,
                        \* each the position of the user message that set it
    botEvent            \* placeholder Chatbot: the handler or callback that ran last

newsVars ==
    <<selectedFilter, selectedSeverity, cves, newsLoading, selectedCVE,
      newsInflight, newsCalls>>

botVars == <<botMessages, botInput, botTimers, botEvent>>

\* selectedCVE while no CVE is selected (null)
NoCVE == [cve_id |-> <<>>]

\* News as constructed, before its effects have run
NewsInit ==
    /\ selectedFilter = "today"
    /\ selectedSeverity = "all"
    /\ cves = <<>>
    /\ newsLoading = TRUE
    /\ selectedCVE = NoCVE
    /\ newsInflight = {}
    /\ newsCalls = <<>>

BotGreeting == [sender |-> "bot", text |-> <<"Hello! How can I assist you today?">>]

\* The placeholder chatbot as constructed
BotInit ==
    /\ botMessages = <<BotGreeting>>
    /\ botInput = <<>>
    /\ botTimers = <<>>
    /\ botEvent = "mount"

-----------------------------------------------------------------------------
(* Text helpers: String.prototype.trim, toUpperCase, RegExp match.         *)

Digits == {"0", "1", "2", "3", "4", "5", "6", "7", "8", "9"}

IsSpace(c) == c \in {" ", "\t", "\n", "\n          "}

RECURSIVE TrimStart(_)
TrimStart(s) == IF s # <<>> /\ IsSpace(Head(s)) THEN TrimStart(Tail(s)) ELSE s

RECURSIVE TrimEnd(_)
TrimEnd(s) ==
    IF s # <<>> /\ IsSpace(s[Len(s)]) THEN TrimEnd(SubSeq(s, 1, Len(s) - 1)) ELSE s

\* String.prototype.trim
Trim(s) == TrimEnd(TrimStart(s))

UpperChar(c) ==
    CASE c = "c" -> "C"
      [] c = "v" -> "V"
      [] c = "e" -> "E"
      [] c = "h" -> "H"
      [] c = "i" -> "I"
      [] OTHER -> c

\* String.prototype.toUpperCase
ToUpperCase(s) == [i \in 1..Len(s) |-> UpperChar(s[i])]

\* The number of consecutive digits of s from position i on.
RECURSIVE DigitRun(_, _)
DigitRun(s, i) ==
    IF i <= Len(s) /\ s[i] \in Digits THEN 1 + DigitRun(s, i + 1) ELSE 0

\* /CVE-\d{4}-\d{4,}/i anchored at position i: the length of the match, 0 if none.
MatchLenAt(s, i) ==
    IF /\ i + 12 <= Len(s)
       /\ ToUpperCase(SubSeq(s, i, i + 3)) = <<"C", "V", "E", "-">>
       /\ DigitRun(s, i + 4) = 4
       /\ s[i + 8] = "-"
       /\ DigitRun(s, i + 9) >= 4
    THEN 9 + DigitRun(s, i + 9)
    ELSE 0

NoMatch == <<>>

\* Variant: the rightmost match.
CveIdMatchRightmost(s) ==
    LET starts == {i \in 1..Len(s) : MatchLenAt(s, i) > 0}
    IN  IF starts = {} THEN NoMatch
        ELSE LET i == CHOOSE j \in starts : \A k \in starts : j >= k
             IN  SubSeq(s, i, i + MatchLenAt(s, i) - 1)

\* content.match(/CVE-\d{4}-\d{4,}/i): the leftmost match, NoMatch (null) if none.
CveIdMatch(s) ==
    LET starts == {i \in 1..Len(s) : MatchLenAt(s, i) > 0}
    IN  IF starts = {} THEN NoMatch
        ELSE LET i == CHOOSE j \in starts : \A k \in starts : j <= k
             IN  SubSeq(s, i, i + MatchLenAt(s, i) - 1)

-----------------------------------------------------------------------------
(* Message construction.                                                   *)

GreetingText ==
    <<"Hello! I'm CyberRAG, your cybersecurity assistant. Ask me about CVE vulnerabilities, security threats, or specific CVE IDs.">>

\* Variant: the greeting is flagged as an error.
GreetingFlagged(t) ==
    [role |-> "assistant", content |-> GreetingText, timestamp |-> t, isError |-> TRUE]

Greeting(t) == [role |-> "assistant", content |-> GreetingText, timestamp |-> t]

\* Variant: the text is stored as typed.
UserMessageUntrimmed(text, t) == [role |-> "user", content |-> text, timestamp |-> t]

UserMessage(text, t) == [role |-> "user", content |-> Trim(text), timestamp |-> t]

\* Variant: the template literal is not trimmed.
FormattedResponseUntrimmed(data) ==
    <<"\n", "**">> \o data.cve_id \o
    <<"**", "\n", "\n", "**Severity:** ", data.severity,
      " (Score: ", data.score, ")", "\n",
      "**Status:** ", data.status, "\n",
      "**Published:** ", data.published, "\n",
      "**Last Modified:** ", data.lastModified, "\n", "\n",
      "**Description:**", "\n", data.description, "\n          ">>

\* The template literal of the lookup hit, trimmed.
FormattedResponse(data) ==
    Trim(<<"\n", "**">> \o data.cve_id \o
         <<"**", "\n", "\n", "**Severity:** ", data.severity,
           " (Score: ", data.score, ")", "\n",
           "**Status:** ", data.status, "\n",
           "**Published:** ", data.published, "\n",
           "**Last Modified:** ", data.lastModified, "\n", "\n",
           "**Description:**", "\n", data.description, "\n          ">>)

\* Variant: the citation is left out.
LookupHitWithoutSources(data, t) ==
    [role |-> "assistant", content |-> FormattedResponse(data), timestamp |-> t]

LookupHitMessage(data, t) ==
    [role |-> "assistant",
     content |-> FormattedResponse(data),
     sources |-> <<[cve_id |-> data.cve_id, severity |-> data.severity,
                    score |-> data.score, published |-> data.published,
                    status |-> data.status]>>,
     timestamp |-> t]

\* Variant: the miss is not flagged as an error.
LookupMissUnflagged(cveId, t) ==
    [role |-> "assistant",
     content |-> <<"I couldn't find ">> \o cveId \o
                 <<" in the database. This CVE might not exist, or it hasn't been added to our database yet. Try asking a general question about vulnerabilities instead.">>,
     timestamp |-> t]

LookupMissMessage(cveId, t) ==
    [role |-> "assistant",
     content |-> <<"I couldn't find ">> \o cveId \o
                 <<" in the database. This CVE might not exist, or it hasn't been added to our database yet. Try asking a general question about vulnerabilities instead.">>,
     timestamp |-> t,
     isError |-> TRUE]

\* Variant: only the first source is kept.
SearchMessageFirstSource(data, t) ==
    [role |-> "assistant", content |-> data.answer,
     sources |-> SubSeq(data.sources, 1, 1), timestamp |-> t]

SearchMessage(data, t) ==
    [role |-> "assistant", content |-> data.answer, sources |-> data.sources,
     timestamp |-> t]

\* Variant: the error message carries an empty sources list.
CatchMessageWithSources(errText, t) ==
    [role |-> "assistant",
     content |-> <<"Sorry, I encountered an error: ">> \o errText \o
                 <<". Please make sure the API server is running.">>,
     sources |-> <<>>,
     timestamp |-> t,
     isError |-> TRUE]

\* The message built in the catch block from error.message.
CatchMessage(errText, t) ==
    [role |-> "assistant",
     content |-> <<"Sorry, I encountered an error: ">> \o errText \o
                 <<". Please make sure the API server is running.">>,
     timestamp |-> t,
     isError |-> TRUE]

\* Variant: the messages are sent as they are stored.
HistoryUnprojected(msgs) == msgs

\* messages.map(msg => ({role: msg.role, content: msg.content}))
HistoryOf(msgs) ==
    [i \in 1..Len(msgs) |-> [role |-> msgs[i].role, content |-> msgs[i].content]]

-----------------------------------------------------------------------------
(* The user's input and the backend's answers (the environment).           *)

BlankInput == <<" ", " ">>

PaddedInput == <<" ", "h", "i", " ">>

LowerCveInput == <<"c", "v", "e", "-", "2", "0", "2", "3", "-", "1", "2", "3", "4">>

ShortYearInput == <<"C", "V", "E", "-", "2", "0", "2", "-", "1", "2", "3", "4">>

\* Text the user may type into the input field.
Inputs == {<<>>, BlankInput, PaddedInput, LowerCveInput, ShortYearInput}

\* exampleQuestions (one of the four; none of them holds a CVE id)
ExampleQuestions ==
    {<<"W", "h", "a", "t", " ", "C", "V", "E", "s", " ", "a", "f", "f", "e", "c", "t", " ",
       "W", "i", "n", "d", "o", "w", "s", " ", "S", "e", "r", "v", "e", "r", "?">>}

OtherCveId == <<"C", "V", "E", "-", "1", "9", "9", "9", "-", "0", "0", "0", "1">>

Record(id) ==
    [success |-> TRUE, cve_id |-> id, severity |-> "HIGH", score |-> "7.5",
     status |-> "Analyzed", published |-> "2023-01-10",
     lastModified |-> "2023-02-01", description |-> "Buffer overflow in the parser."]

Citation(id, sev) ==
    [cve_id |-> id, severity |-> sev, score |-> "9.8", published |-> "2024-03-05",
     status |-> "Modified"]

\* A body that is not JSON (an HTML error page).
Unparsable == [html |-> "<html>"]

\* What GET /api/cve/<cveId> may answer: an HTTP status and a body.
LookupResponses(cveId) ==
    {[status |-> 200, body |-> Record(cveId)],
     [status |-> 200, body |-> Record(OtherCveId)],
     [status |-> 404, body |-> [success |-> FALSE, error |-> <<"CVE not found">>]],
     [status |-> 500, body |-> [success |-> FALSE, error |-> <<"Internal Server Error">>]],
     [status |-> 500, body |-> Unparsable]}

\* What POST /api/query may answer.
QueryResponses ==
    {[status |-> 200,
      body |-> [success |-> TRUE, answer |-> <<"Patch and restrict access.">>,
                sources |-> <<Citation(OtherCveId, "CRITICAL"),
                              Citation(LowerCveInput, "LOW")>>]],
     [status |-> 200, body |-> [success |-> FALSE, error |-> <<"No documents indexed">>]],
     [status |-> 500, body |-> [success |-> FALSE]],
     [status |-> 502, body |-> Unparsable]}

Responses(req) ==
    IF req.kind = "lookup" THEN LookupResponses(req.cveId) ELSE QueryResponses

\* error.message of a rejected fetch and of a rejected response.json()
FetchErrorText == <<"Failed to fetch">>

JsonErrorText == <<"Unexpected token < in JSON at position 0">>

NoResponse == [status |-> 0, body |-> Unparsable]

-----------------------------------------------------------------------------
(* The component.                                                          *)

Init ==
    /\ messages = <<Greeting(0)>>
    /\ input = <<>>
    /\ loading = FALSE
    /\ inflight = {}
    /\ calls = <<>>
    /\ now = 1
    /\ lastEvent = "mount"
    /\ NewsInit
    /\ BotInit

\* onChange={(e) => setInput(e.target.value)}.  The handler has no condition of
\* its own; the field's disabled={loading} attribute only keeps the user's
\* keyboard away, so a change may arrive while a call is pending.
SetInput(text) ==
    /\ input' = text
    /\ lastEvent' = "change"
    /\ UNCHANGED <<messages, loading, inflight, calls, now>>
    /\ UNCHANGED <<newsVars, botVars>>

\* askExample, behind a button rendered only while messages.length === 1
AskExample(question) ==
    /\ Len(messages) = 1
    /\ input' = question
    /\ lastEvent' = "change"
    /\ UNCHANGED <<messages, loading, inflight, calls, now>>
    /\ UNCHANGED <<newsVars, botVars>>

\* Variants of the guard: without the loading test, and without the trim.
RejectedIgnoringLoading(inp, ld) == Trim(inp) = <<>>

RejectedWithoutTrim(inp, ld) == inp = <<>> \/ ld

\* if (!input.trim() || loading) return;
Rejected(inp, ld) == Trim(inp) = <<>> \/ ld

\* Variants of the history: with the user message just queued, and cut to the
\* last message.
HistoryWithUserMessage(msgs, userMessage) == HistoryOf(Append(msgs, userMessage))

HistoryLastOnly(msgs, userMessage) == HistoryOf(SubSeq(msgs, Len(msgs), Len(msgs)))

\* Variant: error messages are filtered out of the history.
HistoryWithoutErrors(msgs, userMessage) ==
    LET NotError(m) == "isError" \notin DOMAIN m
    IN  HistoryOf(SelectSeq(msgs, NotError))

\* The history of the request: sendMessage reads the messages of the render it
\* was created in, which do not yet hold the user message it has just queued.
RequestHistory(msgs, userMessage) == HistoryOf(msgs)

\* Variant: the lookup is keyed by the match as typed.
RequestKeyedAsTyped(msgs, userMessage) ==
    LET cveIdMatch == CveIdMatch(userMessage.content)
    IN  IF cveIdMatch # NoMatch
        THEN [kind |-> "lookup", cveId |-> cveIdMatch]
        ELSE [kind |-> "query", query |-> userMessage.content,
              history |-> RequestHistory(msgs, userMessage)]

\* The fetch() call of an accepted submission.
Request(msgs, userMessage) ==
    LET cveIdMatch == CveIdMatch(userMessage.content)
    IN  IF cveIdMatch # NoMatch
        THEN [kind |-> "lookup", cveId |-> ToUpperCase(cveIdMatch)]
        ELSE [kind |-> "query", query |-> userMessage.content,
              history |-> RequestHistory(msgs, userMessage)]

SendMessageNoop ==
    /\ Rejected(input, loading)
    /\ lastEvent' = "noop"
    /\ UNCHANGED <<messages, input, loading, inflight, calls, now>>
    /\ UNCHANGED <<newsVars, botVars>>

SendMessageAccept ==
    /\ ~Rejected(input, loading)
    /\ Len(calls) < MaxSubmits
    /\ LET userMessage == UserMessage(input, now)
       IN  /\ messages' = Append(messages, userMessage)
           /\ calls' = Append(calls, Request(messages, userMessage))
    /\ input' = <<>>
    /\ loading' = TRUE
    /\ inflight' = inflight \cup
           {[id |-> Len(calls) + 1, stage |-> "fetch", response |-> NoResponse]}
    /\ now' = now + 1
    /\ lastEvent' = "submit"
    /\ UNCHANGED <<newsVars, botVars>>

\* sendMessage up to its first await
SendMessage == SendMessageNoop \/ SendMessageAccept

\* data.success
Success(data) == "success" \in DOMAIN data /\ data.success = TRUE

\* Variant: the backend's error text is dropped.
ErrorTextGeneric(data) == <<"Failed to get response">>

\* data.error || 'Failed to get response'
ErrorText(data) ==
    IF "error" \in DOMAIN data /\ data.error # <<>>
    THEN data.error
    ELSE <<"Failed to get response">>

\* The assistant message of a parsed response: the try block after the second
\* await, with the throw of a failed search landing in the catch block.
Reply(req, data, t) ==
    IF req.kind = "lookup"
    THEN IF Success(data) THEN LookupHitMessage(data, t)
         ELSE LookupMissMessage(req.cveId, t)
    ELSE IF Success(data) THEN SearchMessage(data, t)
         ELSE CatchMessage(ErrorText(data), t)

\* Variant: the flag is not cleared.
LoadingKept(ld) == ld

\* finally { setLoading(false) }
LoadingAfter(ld) == FALSE

\* Variant: the reply takes the place of the last message.
FinishOverwriting(inv, msg) ==
    /\ messages' = [messages EXCEPT ![Len(messages)] = msg]
    /\ loading' = LoadingAfter(loading)
    /\ inflight' = inflight \ {inv}
    /\ now' = now + 1
    /\ lastEvent' = "done"
    /\ UNCHANGED <<input, calls>>
    /\ UNCHANGED <<newsVars, botVars>>

\* The end of an invocation: the message is appended and the flag cleared.
Finish(inv, msg) ==
    /\ messages' = Append(messages, msg)
    /\ loading' = LoadingAfter(loading)
    /\ inflight' = inflight \ {inv}
    /\ now' = now + 1
    /\ lastEvent' = "done"
    /\ UNCHANGED <<input, calls>>
    /\ UNCHANGED <<newsVars, botVars>>

\* Variant: a rejected fetch is issued again.
FetchRejectRetried(inv) ==
    /\ inv.stage = "fetch"
    /\ calls' = Append(calls, calls[inv.id])
    /\ inflight' = (inflight \ {inv}) \cup {[inv EXCEPT !.id = Len(calls) + 1]}
    /\ lastEvent' = "retry"
    /\ UNCHANGED <<messages, input, loading, now>>
    /\ UNCHANGED <<newsVars, botVars>>

\* await fetch(...) rejects: the catch block
FetchReject(inv) ==
    /\ inv.stage = "fetch"
    /\ Finish(inv, CatchMessage(FetchErrorText, now))

\* await fetch(...) resolves with a response of any status
FetchResolve(inv, r) ==
    /\ inv.stage = "fetch"
    /\ inflight' = (inflight \ {inv}) \cup {[inv EXCEPT !.stage = "json", !.response = r]}
    /\ lastEvent' = "response"
    /\ UNCHANGED <<messages, input, loading, calls, now>>
    /\ UNCHANGED <<newsVars, botVars>>

\* Variant: the rejection escapes sendMessage (no catch, no finally).
JsonRejectUncaught(inv) ==
    /\ inv.stage = "json"
    /\ inv.response.body = Unparsable
    /\ inflight' = inflight \ {inv}
    /\ lastEvent' = "done"
    /\ UNCHANGED <<messages, input, loading, calls, now>>
    /\ UNCHANGED <<newsVars, botVars>>

\* await response.json() rejects: the catch block
JsonReject(inv) ==
    /\ inv.stage = "json"
    /\ inv.response.body = Unparsable
    /\ Finish(inv, CatchMessage(JsonErrorText, now))

\* await response.json() resolves with data
JsonResolve(inv) ==
    /\ inv.stage = "json"
    /\ inv.response.body # Unparsable
    /\ Finish(inv, Reply(calls[inv.id], inv.response.body, now))

Next ==
    \/ \E text \in Inputs : SetInput(text)
    \/ \E question \in ExampleQuestions : AskExample(question)
    \/ SendMessage
    \/ \E inv \in inflight : FetchReject(inv)
    \/ \E inv \in inflight : \E r \in Responses(calls[inv.id]) : FetchResolve(inv, r)
    \/ \E inv \in inflight : JsonReject(inv)
    \/ \E inv \in inflight : JsonResolve(inv)

Spec == Init /\ [][Next]_vars

\* Texts for the identifier extractor: two identifiers of mixed case, the first
\* with five sequence digits; three sequence digits; a five-digit year followed
\* by a well-formed identifier inside other text.
TwoIdsInput ==
    <<" ", "C", "v", "e", "-", "2", "0", "2", "4", "-", "1", "2", "3", "4", "5", " ",
      "c", "v", "e", "-", "2", "0", "2", "3", "-", "1", "2", "3", "4">>

ShortSequenceInput == <<"C", "V", "E", "-", "2", "0", "2", "3", "-", "1", "2", "3">>

LongYearInput ==
    <<"x", "C", "V", "E", "-", "2", "0", "2", "3", "4", "-", "1", "2", "3", "4", " ",
      "x", "c", "V", "e", "-", "2", "0", "2", "1", "-", "0", "0", "0", "1", "x">>

ExtractTexts == {TwoIdsInput, ShortSequenceInput, LongYearInput, LowerCveInput}

\* The component with one of the extractor's texts typed into the field.
ExtractInit ==
    /\ messages = <<Greeting(0)>>
    /\ input \in ExtractTexts
    /\ loading = FALSE
    /\ inflight = {}
    /\ calls = <<>>
    /\ now = 1
    /\ lastEvent = "change"
    /\ NewsInit
    /\ BotInit

ExtractSpec == ExtractInit /\ [][Next]_vars

\* A step of the backend or the transport: an await of the pending invocation
\* settles.  LiveSpec assumes every await settles eventually (the transport
\* answers, fails or times out).
Settle ==
    \E inv \in inflight :
        \/ FetchReject(inv)
        \/ \E r \in Responses(calls[inv.id]) : FetchResolve(inv, r)
        \/ JsonReject(inv)
        \/ JsonResolve(inv)

LiveSpec == Spec /\ WF_vars(Settle)

-----------------------------------------------------------------------------
(* The dashboard (News): two filters, the CVE list they fetch, the modal.  *)

\* fetchCVEs invocations explored per behaviour.
MaxNewsRequests == 3

\* The filter buttons exercised, out of ['today', 'week', 'month'] and
\* ['all', 'CRITICAL', 'HIGH', 'MEDIUM', 'LOW'].
FilterChoices == {"today", "week", "month"}

SeverityChoices == {"all", "CRITICAL"}

\* The body of the POST to /api/news
NewsRequest(filter, severity) ==
    [filter |-> filter,
     severity |-> IF severity = "all" THEN "null" ELSE severity,
     limit |-> 50]

\* The list the backend holds for a request: one record, different for every
\* period and severity.
CvesFor(req) ==
    <<[cve_id |-> OtherCveId,
       severity |-> IF req.severity = "null" THEN "LOW" ELSE req.severity,
       published |-> req.filter]>>

\* What the backend may answer to a news request: the list, a body without the
\* success indicator, a body that is not JSON.
NewsResponses(req) ==
    {[status |-> 200, body |-> [success |-> TRUE, cves |-> CvesFor(req)]],
     [status |-> 500, body |-> [error |-> <<"Internal Server Error">>]],
     [status |-> 502, body |-> Unparsable]}

\* fetchCVEs up to its first await, run by the effect with the filters of the
\* render that scheduled it.
FetchCVEs(filter, severity) ==
    /\ newsLoading' = TRUE
    /\ newsCalls' = Append(newsCalls, [request |-> NewsRequest(filter, severity),
                                       outcome |-> "pending"])
    /\ newsInflight' = newsInflight \cup
           {[id |-> Len(newsCalls) + 1, stage |-> "fetch", response |-> NoResponse]}

\* The effects of the first render.
NewsMount ==
    /\ newsCalls = <<>>
    /\ FetchCVEs(selectedFilter, selectedSeverity)
    /\ UNCHANGED <<selectedFilter, selectedSeverity, cves, selectedCVE>>
    /\ UNCHANGED <<vars, botVars>>

\* onClick={() => setSelectedFilter(filter)}.  The effect runs again only when
\* the value differs from the current one.
SetSelectedFilter(filter) ==
    /\ newsCalls # <<>>
    /\ selectedFilter' = filter
    /\ IF filter # selectedFilter
       THEN /\ Len(newsCalls) < MaxNewsRequests
            /\ FetchCVEs(filter, selectedSeverity)
       ELSE UNCHANGED <<newsLoading, newsCalls, newsInflight>>
    /\ UNCHANGED <<selectedSeverity, cves, selectedCVE>>
    /\ UNCHANGED <<vars, botVars>>

\* onClick={() => setSelectedSeverity(severity)}
SetSelectedSeverity(severity) ==
    /\ newsCalls # <<>>
    /\ selectedSeverity' = severity
    /\ IF severity # selectedSeverity
       THEN /\ Len(newsCalls) < MaxNewsRequests
            /\ FetchCVEs(selectedFilter, severity)
       ELSE UNCHANGED <<newsLoading, newsCalls, newsInflight>>
    /\ UNCHANGED <<selectedFilter, cves, selectedCVE>>
    /\ UNCHANGED <<vars, botVars>>

\* handleCVEClick, behind the cards rendered while loading is false
HandleCVEClick(cve) ==
    /\ ~newsLoading
    /\ \E i \in 1..Len(cves) : cves[i] = cve
    /\ selectedCVE' = cve
    /\ UNCHANGED <<selectedFilter, selectedSeverity, cves, newsLoading,
                   newsInflight, newsCalls>>
    /\ UNCHANGED <<vars, botVars>>

\* closeModal, behind the modal rendered while a CVE is selected
CloseModal ==
    /\ selectedCVE # NoCVE
    /\ selectedCVE' = NoCVE
    /\ UNCHANGED <<selectedFilter, selectedSeverity, cves, newsLoading,
                   newsInflight, newsCalls>>
    /\ UNCHANGED <<vars, botVars>>

\* Variant: a body without the list empties the display.
CvesAfterCleared(old, data) ==
    IF Success(data) THEN data.cves ELSE <<>>

\* if (data.success) setCves(data.cves)
CvesAfter(old, data) ==
    IF Success(data) THEN data.cves ELSE old

\* finally { setLoading(false) }
NewsLoadingAfter(pending) == FALSE

\* The end of a fetchCVEs invocation; data is the parsed body, or Unparsable
\* when the try block threw.
NewsFinish(inv, data) ==
    /\ cves' = CvesAfter(cves, data)
    /\ newsLoading' = NewsLoadingAfter(newsInflight \ {inv})
    /\ newsInflight' = newsInflight \ {inv}
    /\ newsCalls' = [newsCalls EXCEPT ![inv.id].outcome =
                         IF Success(data) THEN "shown" ELSE "failed"]
    /\ UNCHANGED <<selectedFilter, selectedSeverity, selectedCVE>>
    /\ UNCHANGED <<vars, botVars>>

\* await fetch(...) rejects: catch, finally
NewsFetchReject(inv) ==
    /\ inv.stage = "fetch"
    /\ NewsFinish(inv, Unparsable)

\* await fetch(...) resolves with a response of any status
NewsFetchResolve(inv, r) ==
    /\ inv.stage = "fetch"
    /\ newsInflight' = (newsInflight \ {inv}) \cup
           {[inv EXCEPT !.stage = "json", !.response = r]}
    /\ UNCHANGED <<selectedFilter, selectedSeverity, cves, newsLoading,
                   selectedCVE, newsCalls>>
    /\ UNCHANGED <<vars, botVars>>

\* await response.json() rejects: catch, finally
NewsJsonReject(inv) ==
    /\ inv.stage = "json"
    /\ inv.response.body = Unparsable
    /\ NewsFinish(inv, Unparsable)

\* await response.json() resolves with data
NewsJsonResolve(inv) ==
    /\ inv.stage = "json"
    /\ inv.response.body # Unparsable
    /\ NewsFinish(inv, inv.response.body)

NewsNext ==
    \/ NewsMount
    \/ \E filter \in FilterChoices : SetSelectedFilter(filter)
    \/ \E severity \in SeverityChoices : SetSelectedSeverity(severity)
    \/ \E i \in 1..Len(cves) : HandleCVEClick(cves[i])
    \/ CloseModal
    \/ \E inv \in newsInflight : NewsFetchReject(inv)
    \/ \E inv \in newsInflight :
           \E r \in NewsResponses(newsCalls[inv.id].request) : NewsFetchResolve(inv, r)
    \/ \E inv \in newsInflight : NewsJsonReject(inv)
    \/ \E inv \in newsInflight : NewsJsonResolve(inv)

NewsSpec == Init /\ [][NewsNext]_newsVars

-----------------------------------------------------------------------------
(* The placeholder chatbot (components/Chatbot.jsx).                       *)

\* Sends with non-blank input explored per behaviour.
MaxBotSends == 3

BotInputs == {<<>>, BlankInput, PaddedInput, <<"y", "o">>}

BotReply == [sender |-> "bot", text |-> <<"Message received!">>]

\* onChange={(e) => setInput(e.target.value)}
BotSetInput(text) ==
    /\ botInput' = text
    /\ botEvent' = "change"
    /\ UNCHANGED <<botMessages, botTimers>>
    /\ UNCHANGED <<vars, newsVars>>

\* handleSend: if (!input.trim()) return
HandleSendNoop ==
    /\ Trim(botInput) = <<>>
    /\ botEvent' = "noop"
    /\ UNCHANGED <<botMessages, botInput, botTimers>>
    /\ UNCHANGED <<vars, newsVars>>

\* Variant: two callbacks are set for one send.
BotScheduledTwice(timers, trigger) == Append(Append(timers, trigger), trigger)

\* setTimeout(..., 500): callbacks of equal delay run in the order they were set
BotScheduled(timers, trigger) == Append(timers, trigger)

\* handleSend with non-blank input; the text is stored as typed
HandleSendAccept ==
    /\ Trim(botInput) # <<>>
    /\ Cardinality({i \in 1..Len(botMessages) : botMessages[i].sender = "user"})
           < MaxBotSends
    /\ botMessages' = Append(botMessages, [sender |-> "user", text |-> botInput])
    /\ botTimers' = BotScheduled(botTimers, Len(botMessages) + 1)
    /\ botInput' = <<>>
    /\ botEvent' = "send"
    /\ UNCHANGED <<vars, newsVars>>

\* onKeyDown Enter, onClick of Send
HandleSend == HandleSendNoop \/ HandleSendAccept

\* The callback of setTimeout runs.
BotTimerFires ==
    /\ botTimers # <<>>
    /\ botMessages' = Append(botMessages, BotReply)
    /\ botTimers' = Tail(botTimers)
    /\ botEvent' = "timer"
    /\ UNCHANGED botInput
    /\ UNCHANGED <<vars, newsVars>>

BotNext ==
    \/ \E text \in BotInputs : BotSetInput(text)
    \/ HandleSend
    \/ BotTimerFires

BotSpec == Init /\ [][BotNext]_botVars

-----------------------------------------------------------------------------
(* Properties.                                                             *)

Last(s) == s[Len(s)]

AllSpace(s) == \A i \in 1..Len(s) : s[i] \in {" ", "\t", "\n"}

\* C1: a submit issued while an earlier submit's backend call has not yet
\* resolved appends no message and issues no backend call.
SingleFlightNoop ==
    [][(SendMessage /\ inflight # {}) =>
           /\ messages' = messages
           /\ calls' = calls
           /\ inflight' = inflight]_vars

\* A submit with non-blank text was issued while a call was pending and dropped.
SingleFlightNoopWitness ==
    lastEvent = "noop" /\ inflight # {} /\ ~AllSpace(input)

\* C2: at most one backend request is pending, and the loading flag is true
\* exactly when one is.
AtMostOnePending ==
    /\ Cardinality(inflight) <= 1
    /\ loading <=> (Cardinality(inflight) = 1)

AtMostOnePendingWitness ==
    /\ loading
    /\ \E inv \in inflight : inv.stage = "json" /\ inv.id = 2

\* The backend request that the text of a user message leads to.
Triggered(msg, req) ==
    /\ msg.role = "user"
    /\ IF req.kind = "query"
       THEN req.query = msg.content /\ CveIdMatch(msg.content) = NoMatch
       ELSE req.cveId = ToUpperCase(CveIdMatch(msg.content))

\* C3: request/response pairs never interleave: when request N+1 is issued the
\* reply to request N is already in the store, and the history of a
\* semantic-search request N+1 holds the user message and the reply of request N.
PairsNeverInterleave ==
    [][Len(calls') > Len(calls) =>
           LET n == Len(calls)
               req == calls'[n + 1]
           IN  /\ Len(calls') = n + 1
               /\ inflight = {}
               /\ Len(messages) = 1 + 2 * n
               /\ n >= 1 =>
                   /\ Triggered(messages[2 * n], calls[n])
                   /\ messages[2 * n + 1].role = "assistant"
                   /\ req.kind = "query" =>
                       /\ Len(req.history) >= 2 * n + 1
                       /\ req.history[2 * n] = HistoryOf(messages)[2 * n]
                       /\ req.history[2 * n + 1] = HistoryOf(messages)[2 * n + 1]]_vars

\* A second request, a semantic search, was issued after a first one resolved.
PairsNeverInterleaveWitness ==
    /\ Len(calls) = 2
    /\ calls[2].kind = "query"
    /\ Len(calls[2].history) = 3

\* C4 as claimed: the history of a semantic-search request is the projection of
\* the store with the user message of that submit as its last element.
HistoryEndsWithNewUserMessage ==
    \A i \in 1..Len(calls) :
        calls[i].kind = "query" =>
            /\ calls[i].history = SubSeq(HistoryOf(messages), 1, 2 * i)
            /\ Last(calls[i].history) = [role |-> "user", content |-> calls[i].query]

\* C4 as amended: the history of a semantic-search request is the projection of
\* the store as it was before that submit appended its user message; its last
\* element is the preceding assistant message (for the first submit the history
\* is the greeting alone), and the new text travels in the query field only.
HistoryIsStoreBeforeSubmit ==
    \A i \in 1..Len(calls) :
        calls[i].kind = "query" =>
            /\ calls[i].history = SubSeq(HistoryOf(messages), 1, 2 * i - 1)
            /\ Last(calls[i].history).role = "assistant"
            /\ HistoryOf(messages)[2 * i] = [role |-> "user", content |-> calls[i].query]
            /\ i = 1 => calls[i].history = <<[role |-> "assistant", content |-> GreetingText]>>

\* A first submit was routed to semantic search and a later one, too.
HistoryIsStoreBeforeSubmitWitness ==
    /\ Len(calls) = 2
    /\ calls[1].kind = "query"
    /\ calls[2].kind = "query"
    /\ calls[2].history[3].content # GreetingText

\* A step in which the pending invocation inv ends.
Ends(inv) == \A j \in inflight' : j.id # inv.id

\* An assistant error message built by the catch block around a failure text.
EmbedsFailureText(msg) ==
    /\ msg.role = "assistant"
    /\ "isError" \in DOMAIN msg /\ msg.isError = TRUE
    /\ Len(msg.content) >= 3
    /\ Head(msg.content) = "Sorry, I encountered an error: "
    /\ Last(msg.content) = ". Please make sure the API server is running."

\* C5: every transport failure (a rejected fetch, a non-success HTTP status, a
\* body that cannot be parsed) ends with exactly one assistant message with
\* isError that embeds the failure's text, and with the dispatcher idle.
TransportFailureCaught ==
    [][\A inv \in inflight :
           (/\ Ends(inv)
            /\ \/ inv.stage = "fetch"
               \/ inv.response.status \notin 200..299
               \/ inv.response.body = Unparsable)
           => /\ Len(messages') = Len(messages) + 1
              /\ SubSeq(messages', 1, Len(messages)) = messages
              /\ EmbedsFailureText(Last(messages'))
              /\ ~loading' /\ inflight' = {}]_vars

\* C6: whenever the backend call of an accepted submit resolves, an assistant
\* message is appended and the flag cleared; a loading dispatcher returns to
\* idle, and an idle one accepts a submit with non-blank text.
NeverLocked ==
    /\ loading ~> (~loading /\ inflight = {} /\ Last(messages).role = "assistant")
    /\ [][\A inv \in inflight : Ends(inv) =>
              /\ Len(messages') = Len(messages) + 1
              /\ Last(messages').role = "assistant"
              /\ ~loading']_vars
    /\ [][(SendMessage /\ ~loading /\ ~AllSpace(input)) =>
              /\ messages' = Append(messages, UserMessage(input, now))
              /\ Len(calls') = Len(calls) + 1
              /\ loading']_vars

\* After a failed call, a second submit was accepted and answered normally.
NeverLockedWitness ==
    /\ Len(messages) = 5
    /\ ~loading
    /\ "isError" \in DOMAIN messages[3]
    /\ "isError" \notin DOMAIN messages[5]

Count(role) == Cardinality({i \in 2..Len(messages) : messages[i].role = role})

\* C7: every accepted submit causes exactly one backend call, one user message
\* and, once the call has resolved, one assistant message; nothing is retried.
OneCallTwoMessages ==
    /\ Count("user") = Len(calls)
    /\ Count("assistant") = Len(calls) - Cardinality(inflight)
    /\ Len(messages) = 1 + 2 * Len(calls) - Cardinality(inflight)
    /\ \A inv \in inflight : inv.id = Len(calls)

\* Two submits resolved, the first of them with a rejected fetch.
OneCallTwoMessagesWitness ==
    /\ Len(calls) = 2
    /\ inflight = {}
    /\ Len(messages) = 5
    /\ messages[3].content = CatchMessage(FetchErrorText, 0).content

\* C8: the store is append-only: every step keeps the store as a prefix.
AppendOnly ==
    [][/\ Len(messages') >= Len(messages)
       /\ SubSeq(messages', 1, Len(messages)) = messages]_vars

AppendOnlyWitness == Len(messages) = 5 /\ lastEvent = "done"

\* C9: the store is the greeting followed by alternating user and assistant
\* messages, each reply right after the user message that triggered its
\* request; the last message is an assistant message when idle and the pending
\* user message when submitting.
Alternating ==
    /\ messages[1].role = "assistant" /\ messages[1].content = GreetingText
    /\ \A i \in 2..Len(messages) :
           messages[i].role = (IF i % 2 = 0 THEN "user" ELSE "assistant")
    /\ \A k \in 1..Len(calls) : Triggered(messages[2 * k], calls[k])
    /\ loading => (Last(messages).role = "user" /\ Len(messages) = 2 * Len(calls))
    /\ ~loading => Last(messages).role = "assistant"

AlternatingWitness ==
    /\ loading
    /\ Len(messages) = 4
    /\ messages[4].role = "user"

\* C10: a submit whose text is empty or whitespace-only changes nothing: the
\* store, the flag and the pending requests stay, and no call is issued.
BlankSubmitNoop ==
    [][(SendMessage /\ AllSpace(input)) =>
           UNCHANGED <<messages, loading, inflight, calls>>]_vars

\* A whitespace-only text was submitted to an idle dispatcher and dropped.
BlankSubmitNoopWitness ==
    lastEvent = "noop" /\ ~loading /\ input = BlankInput

\* C11: every history payload is a sequence of records with exactly the keys
\* role and content, one per message of the store at the time of the submit,
\* in the order of the store, none left out.
HistoryIsRoleContentOnly ==
    \A i \in 1..Len(calls) :
        calls[i].kind = "query" =>
            /\ Len(calls[i].history) = 2 * i - 1
            /\ \A j \in 1..Len(calls[i].history) :
                   /\ DOMAIN calls[i].history[j] = {"role", "content"}
                   /\ calls[i].history[j].role = messages[j].role
                   /\ calls[i].history[j].content = messages[j].content

\* A history was sent whose store held a message with sources and timestamps.
HistoryIsRoleContentOnlyWitness ==
    /\ Len(calls) = 2
    /\ calls[2].kind = "query"
    /\ "sources" \in DOMAIN messages[3]
    /\ "timestamp" \in DOMAIN messages[2]

\* The text s holds, from position i on, CVE in any letter case, a hyphen, four
\* digits, a hyphen and n digits.
IdFormAt(s, i, n) ==
    /\ i >= 1 /\ i + 8 + n <= Len(s)
    /\ s[i] \in {"C", "c"} /\ s[i + 1] \in {"V", "v"} /\ s[i + 2] \in {"E", "e"}
    /\ s[i + 3] = "-"
    /\ \A d \in 4..7 : s[i + d] \in Digits
    /\ s[i + 8] = "-"
    /\ \A d \in 9..(8 + n) : s[i + d] \in Digits

IdStarts(s) == {i \in 1..Len(s) : IdFormAt(s, i, 4)}

HasId(s) == IdStarts(s) # {}

\* The leftmost identifier of s with all of its sequence digits, in upper case.
LeftmostId(s) ==
    LET i == CHOOSE j \in IdStarts(s) : \A k \in IdStarts(s) : j <= k
        n == CHOOSE m \in 4..Len(s) :
                 IdFormAt(s, i, m) /\ ~IdFormAt(s, i, m + 1)
    IN  <<"C", "V", "E">> \o SubSeq(s, i + 3, i + 8 + n)

\* C12: routing is exclusive: a text with an identifier leads to one direct
\* lookup keyed by the upper-case identifier, without query or history; a text
\* without leads to one semantic search whose query is the trimmed text.
RoutingExclusive ==
    [][Len(calls') > Len(calls) =>
           LET req == Last(calls')
           IN  /\ Len(calls') = Len(calls) + 1
               /\ IF HasId(input)
                  THEN req = [kind |-> "lookup", cveId |-> LeftmostId(input)]
                  ELSE /\ DOMAIN req = {"kind", "query", "history"}
                       /\ req.kind = "query"
                       /\ req.query = Trim(input)]_vars

\* Both routes were taken, the lookup for an identifier typed in lower case.
RoutingExclusiveWitness ==
    /\ Len(calls) = 2
    /\ calls[1].kind = "lookup" /\ messages[2].content = LowerCveInput
    /\ calls[2].kind = "query"

\* C13: the extractor returns the leftmost substring of the form CVE, hyphen,
\* four digits, hyphen, four or more digits, in upper case, and nothing when
\* the text holds none: request k is a lookup of that identifier exactly when
\* the text of user message k holds one.
ExtractorLeftmostUppercase ==
    \A k \in 1..Len(calls) :
        LET text == messages[2 * k].content
        IN  IF HasId(text)
            THEN /\ calls[k].kind = "lookup"
                 /\ calls[k].cveId = LeftmostId(text)
            ELSE calls[k].kind = "query"

\* The extractor ran on a text with two identifiers and on one with a
\* three-digit year.
ExtractorLeftmostUppercaseWitness ==
    /\ Len(calls) = 2
    /\ messages[2].content = Trim(TwoIdsInput)
    /\ calls[1].cveId =
           <<"C", "V", "E", "-", "2", "0", "2", "4", "-", "1", "2", "3", "4", "5">>
    /\ messages[4].content = ShortYearInput
    /\ calls[2].kind = "query"

\* The text s holds the text sub.
Contains(s, sub) ==
    \E i \in 1..(Len(s) - Len(sub) + 1) : SubSeq(s, i, i + Len(sub) - 1) = sub

\* A step in which the invocation inv ends on a parsed body.
EndsParsed(inv, kind) ==
    /\ Ends(inv)
    /\ inv.stage = "json"
    /\ inv.response.body # Unparsable
    /\ calls[inv.id].kind = kind

\* C14 as claimed: a lookup hit appends a message without isError whose content
\* holds the requested identifier and the returned severity, with exactly one
\* citation, whose CVE id is the identifier sent to the backend.
LookupHitCitesRequestedId ==
    [][\A inv \in inflight :
           (EndsParsed(inv, "lookup") /\ inv.response.body.success = TRUE) =>
               LET msg == Last(messages')
                   cveId == calls[inv.id].cveId
               IN  /\ Len(messages') = Len(messages) + 1
                   /\ "isError" \notin DOMAIN msg
                   /\ Contains(msg.content, cveId)
                   /\ Contains(msg.content, <<inv.response.body.severity>>)
                   /\ "sources" \in DOMAIN msg
                   /\ Len(msg.sources) = 1
                   /\ msg.sources[1].cve_id = cveId]_vars

\* C14 as amended: a lookup hit appends a message without isError whose content
\* holds the cve_id and the severity of the response, with exactly one citation,
\* whose CVE id is the cve_id of the response; it is the requested identifier
\* when the backend answers with the record of that identifier.
LookupHitCitesReturnedId ==
    [][\A inv \in inflight :
           (EndsParsed(inv, "lookup") /\ inv.response.body.success = TRUE) =>
               LET msg == Last(messages')
                   data == inv.response.body
                   cveId == calls[inv.id].cveId
               IN  /\ Len(messages') = Len(messages) + 1
                   /\ "isError" \notin DOMAIN msg
                   /\ Contains(msg.content, data.cve_id)
                   /\ Contains(msg.content, <<data.severity>>)
                   /\ "sources" \in DOMAIN msg
                   /\ Len(msg.sources) = 1
                   /\ msg.sources[1].cve_id = data.cve_id
                   /\ data.cve_id = cveId =>
                          (msg.sources[1].cve_id = cveId /\ Contains(msg.content, cveId))]_vars

\* A hit was appended for the record of the requested identifier, and one for
\* a record with another identifier.
LookupHitCitesReturnedIdWitness ==
    /\ Len(messages) = 5
    /\ calls[1].kind = "lookup" /\ calls[2].kind = "lookup"
    /\ "sources" \in DOMAIN messages[3] /\ "sources" \in DOMAIN messages[5]
    /\ messages[3].sources[1].cve_id = calls[1].cveId
    /\ messages[5].sources[1].cve_id # calls[2].cveId

\* C15: a lookup response that parses but lacks the success indicator appends
\* exactly one assistant message with isError, without sources, whose fixed
\* content names the upper-case identifier of the user's text; the dispatcher
\* is idle afterwards.
LookupMissNamesId ==
    [][\A inv \in inflight :
           (EndsParsed(inv, "lookup") /\ inv.response.body.success # TRUE) =>
               LET msg == Last(messages')
                   id == LeftmostId(messages[2 * inv.id].content)
               IN  /\ messages' = Append(messages, msg)
                   /\ msg.role = "assistant"
                   /\ "isError" \in DOMAIN msg /\ msg.isError = TRUE
                   /\ "sources" \notin DOMAIN msg
                   /\ Head(msg.content) = "I couldn't find "
                   /\ SubSeq(msg.content, 2, Len(id) + 1) = id
                   /\ Len(msg.content) = Len(id) + 2
                   /\ ~loading' /\ inflight' = {}]_vars

\* A miss was appended for an identifier typed in lower case.
LookupMissNamesIdWitness ==
    /\ Len(messages) >= 3
    /\ messages[2].content = LowerCveInput
    /\ Head(messages[3].content) = "I couldn't find "
    /\ Contains(messages[3].content, ToUpperCase(LowerCveInput))
    /\ ~loading

\* C16: a search response with the success indicator appends an assistant
\* message whose content is the answer, whose sources are the returned list,
\* same elements in the same order, and which has no isError.
SearchSuccessVerbatim ==
    [][\A inv \in inflight :
           (EndsParsed(inv, "query") /\ inv.response.body.success = TRUE) =>
               LET msg == Last(messages')
               IN  /\ messages' = Append(messages, msg)
                   /\ msg.role = "assistant"
                   /\ msg.content = inv.response.body.answer
                   /\ "sources" \in DOMAIN msg
                   /\ msg.sources = inv.response.body.sources
                   /\ "isError" \notin DOMAIN msg]_vars

\* An answer with two sources was appended.
SearchSuccessVerbatimWitness ==
    /\ Len(messages) >= 3
    /\ calls[1].kind = "query"
    /\ "sources" \in DOMAIN messages[3]
    /\ Len(messages[3].sources) = 2
    /\ messages[3].sources[1].severity = "CRITICAL"

\* C17: a search response that parses but reports failure appends exactly one
\* assistant message with isError and without sources, built by the catch
\* block around the backend's error text when there is one and around the
\* fallback text otherwise.
SearchFailureTakesCatchPath ==
    [][\A inv \in inflight :
           (EndsParsed(inv, "query") /\ inv.response.body.success # TRUE) =>
               LET msg == Last(messages')
                   data == inv.response.body
                   text == IF "error" \in DOMAIN data THEN data.error
                           ELSE <<"Failed to get response">>
               IN  /\ messages' = Append(messages, msg)
                   /\ EmbedsFailureText(msg)
                   /\ "sources" \notin DOMAIN msg
                   /\ SubSeq(msg.content, 2, Len(msg.content) - 1) = text
                   /\ ~loading' /\ inflight' = {}]_vars

\* Both a failure with an error text and one without were appended.
SearchFailureTakesCatchPathWitness ==
    /\ Len(messages) = 5
    /\ messages[3].content = CatchMessage(<<"No documents indexed">>, 0).content
    /\ messages[5].content = CatchMessage(<<"Failed to get response">>, 0).content

\* C18: a session starts with a store of exactly one message, the assistant
\* greeting with its fixed text, without sources and without isError, with the
\* dispatcher idle and no backend request pending or issued.
SessionStartsWithGreeting ==
    lastEvent = "mount" =>
        /\ Len(messages) = 1
        /\ messages[1].role = "assistant"
        /\ messages[1].content = GreetingText
        /\ DOMAIN messages[1] = {"role", "content", "timestamp"}
        /\ ~loading
        /\ inflight = {}
        /\ calls = <<>>

\* The state after construction.
SessionStartsWithGreetingWitness ==
    lastEvent = "mount" /\ Len(messages) = 1 /\ input = <<>>

\* An assistant message flagged as an error.
IsErrorMessage(m) ==
    m.role = "assistant" /\ "isError" \in DOMAIN m /\ m.isError = TRUE

\* C19: the history is not filtered by isError: every error message appended
\* in an earlier turn is, as a {role, content} pair at its store position, in
\* the history of every later semantic-search request.
HistoryKeepsErrors ==
    \A i \in 1..Len(calls) :
        calls[i].kind = "query" =>
            \A j \in 1..(2 * i - 1) :
                IsErrorMessage(messages[j]) =>
                    /\ Len(calls[i].history) >= j
                    /\ calls[i].history[j] =
                           [role |-> "assistant", content |-> messages[j].content]

\* A search request was sent after a lookup miss.
HistoryKeepsErrorsWitness ==
    /\ Len(calls) = 2
    /\ calls[2].kind = "query"
    /\ IsErrorMessage(messages[3])
    /\ Head(messages[3].content) = "I couldn't find "
    /\ Head(calls[2].history[3].content) = "I couldn't find "

\* C20: only assistant messages produced by a successful lookup or search carry
\* sources; every message with isError is an assistant message without
\* sources; no user message carries sources or isError.
SourcesOnlyOnSuccess ==
    /\ [](\A j \in 1..Len(messages) :
              LET m == messages[j]
              IN  /\ "sources" \in DOMAIN m =>
                      (m.role = "assistant" /\ "isError" \notin DOMAIN m /\ j > 1)
                  /\ "isError" \in DOMAIN m =>
                      (m.isError = TRUE /\ m.role = "assistant"
                       /\ "sources" \notin DOMAIN m)
                  /\ m.role = "user" =>
                      DOMAIN m = {"role", "content", "timestamp"})
    /\ [][\A inv \in inflight : Ends(inv) =>
              ("sources" \in DOMAIN Last(messages') <=>
                  /\ inv.stage = "json"
                  /\ inv.response.body # Unparsable
                  /\ inv.response.body.success = TRUE)]_vars

\* The store holds a reply with sources and an error reply.
SourcesOnlyOnSuccessWitness ==
    /\ Len(messages) = 5
    /\ "sources" \in DOMAIN messages[3]
    /\ IsErrorMessage(messages[5])

\* The text c is the text s without its leading and trailing whitespace.
IsTrimOf(c, s) ==
    \E a \in 0..Len(s) : \E b \in 0..(Len(s) - a) :
        /\ c = SubSeq(s, a + 1, Len(s) - b)
        /\ \A i \in 1..a : s[i] \in {" ", "\t", "\n"}
        /\ \A i \in (Len(s) - b + 1)..Len(s) : s[i] \in {" ", "\t", "\n"}
        /\ c # <<>> => (c[1] \notin {" ", "\t", "\n"} /\ Last(c) \notin {" ", "\t", "\n"})

\* C21: an accepted submit appends a user message holding the trimmed text,
\* routes on that trimmed content, sends it as the query of a semantic search,
\* empties the input buffer and sets the flag, with the call still pending.
AcceptedSubmitEffects ==
    [][Len(calls') > Len(calls) =>
           LET msg == Last(messages')
               req == Last(calls')
           IN  /\ messages' = Append(messages, msg)
               /\ msg.role = "user"
               /\ IsTrimOf(msg.content, input)
               /\ msg.content # <<>>
               /\ IF HasId(msg.content)
                  THEN req.kind = "lookup" /\ req.cveId = LeftmostId(msg.content)
                  ELSE req.kind = "query" /\ req.query = msg.content
               /\ input' = <<>>
               /\ loading'
               /\ \E inv \in inflight' : inv.id = Len(calls') /\ inv.stage = "fetch"]_vars

\* A text with spaces around it was accepted and its call is pending.
AcceptedSubmitEffectsWitness ==
    /\ lastEvent = "submit"
    /\ Last(messages).content = <<"h", "i">>
    /\ Last(calls).query = <<"h", "i">>
    /\ input = <<>>
    /\ loading
    /\ \E inv \in inflight : inv.stage = "fetch"

\* The text s holds the pieces of fields in their order, each after the one
\* before.
RECURSIVE HoldsInOrder(_, _, _)
HoldsInOrder(s, fields, from) ==
    \/ fields = <<>>
    \/ \E p \in from..Len(s) :
           /\ SubSeq(s, p, p + Len(Head(fields)) - 1) = Head(fields)
           /\ HoldsInOrder(s, Tail(fields), p + Len(Head(fields)))

\* C22: the content of a lookup hit holds the seven fields of the response in
\* the order id, severity, score, status, published, lastModified, description,
\* and neither starts nor ends with whitespace.
HitTemplateOrdered ==
    [][\A inv \in inflight :
           (EndsParsed(inv, "lookup") /\ inv.response.body.success = TRUE) =>
               LET content == Last(messages').content
                   data == inv.response.body
               IN  /\ HoldsInOrder(content,
                          <<data.cve_id, <<data.severity>>, <<data.score>>,
                            <<data.status>>, <<data.published>>,
                            <<data.lastModified>>, <<data.description>>>>, 1)
                   /\ ~IsSpace(Head(content))
                   /\ ~IsSpace(Last(content))
                   /\ \A j \in 1..Len(messages) :
                          ("sources" \in DOMAIN messages[j]
                           /\ Len(messages[j].sources) = 1
                           /\ messages[j].sources[1].cve_id = data.cve_id)
                          => messages[j].content = content]_vars

\* Two hits for the same record are in the store.
HitTemplateOrderedWitness ==
    /\ Len(messages) = 5
    /\ "sources" \in DOMAIN messages[3] /\ "sources" \in DOMAIN messages[5]
    /\ Len(messages[3].sources) = 1 /\ Len(messages[5].sources) = 1
    /\ messages[3].content = messages[5].content
    /\ messages[3].timestamp # messages[5].timestamp

\* C23: once every issued news request has resolved, and each brought a list,
\* the displayed list is the result for the currently selected filter and
\* severity: a superseded request's response never replaces the latest one's.
LatestNewsRequestWins ==
    (/\ newsCalls # <<>>
     /\ newsInflight = {}
     /\ \A i \in 1..Len(newsCalls) : newsCalls[i].outcome = "shown")
        => cves = CvesFor(NewsRequest(selectedFilter, selectedSeverity))

\* C24: the dashboard's loading flag is false only when no news request is
\* pending.
NewsLoadingWhilePending == ~newsLoading => newsInflight = {}

\* A fetchCVEs invocation ends in the step.
NewsEnds(inv) == \A j \in newsInflight' : j.id # inv.id

\* The invocation ends in failure: its fetch rejects, or its body is not JSON
\* or lacks success.
NewsFailed(inv) == inv.stage = "fetch" \/ ~Success(inv.response.body)

\* C25: a news request that fails leaves the displayed list, both filters and
\* the selected CVE as they were, and the step that ends it clears the loading
\* flag.
FailedNewsRequestChangesNothing ==
    [][\A inv \in newsInflight :
          (NewsEnds(inv) /\ NewsFailed(inv)) =>
              /\ cves' = cves
              /\ selectedFilter' = selectedFilter
              /\ selectedSeverity' = selectedSeverity
              /\ selectedCVE' = selectedCVE
              /\ ~newsLoading']_newsVars

\* The second request failed after the first had filled the list and a CVE
\* had been opened: list and selection are still those of the first.
FailedNewsRequestChangesNothingWitness ==
    /\ Len(newsCalls) = 2
    /\ newsCalls[1].outcome = "shown"
    /\ newsCalls[2].outcome = "failed"
    /\ selectedFilter = "week"
    /\ cves = CvesFor(newsCalls[1].request)
    /\ selectedCVE = cves[1]
    /\ ~newsLoading

\* Messages of one sender among the first n of the placeholder chatbot.
BotCount(sender, n) ==
    Cardinality({i \in 1..n : botMessages[i].sender = sender})

\* C26: in the placeholder chatbot a send with non-blank input appends the
\* user message, with the text as typed, in the same step and sets exactly one
\* timer; a send with blank input changes nothing; a timer appends one bot
\* reply, after the user message that set it; at every point of the list the
\* bot messages are at most 1 plus the user messages, and with no timer left
\* they are exactly 1 plus the user messages.
PlaceholderRepliesOncePerSend ==
    /\ [](/\ \A n \in 1..Len(botMessages) : BotCount("bot", n) <= 1 + BotCount("user", n)
          /\ BotCount("bot", Len(botMessages)) + Len(botTimers)
                 = 1 + BotCount("user", Len(botMessages))
          /\ botTimers = <<>> =>
                 BotCount("bot", Len(botMessages)) = 1 + BotCount("user", Len(botMessages)))
    /\ [][botEvent' = "send" =>
              /\ ~AllSpace(botInput)
              /\ botMessages' = Append(botMessages, [sender |-> "user", text |-> botInput])
              /\ Len(botTimers') = Len(botTimers) + 1
              /\ SubSeq(botTimers', 1, Len(botTimers)) = botTimers
              /\ Last(botTimers') = Len(botMessages')]_botVars
    /\ [][botEvent' = "noop" =>
              /\ AllSpace(botInput)
              /\ UNCHANGED <<botMessages, botInput, botTimers>>]_botVars
    /\ [][botEvent' = "timer" =>
              /\ botTimers # <<>>
              /\ Head(botTimers) <= Len(botMessages)
              /\ botMessages[Head(botTimers)].sender = "user"
              /\ botMessages' = Append(botMessages, BotReply)
              /\ botTimers' = Tail(botTimers)]_botVars

\* Two sends were made before the first timer ran, the first with padded
\* text; both replies have arrived and a blank send was then ignored.
PlaceholderRepliesOncePerSendWitness ==
    /\ Len(botMessages) = 5
    /\ botMessages[2] = [sender |-> "user", text |-> PaddedInput]
    /\ botMessages[3].sender = "user"
    /\ botMessages[4] = BotReply
    /\ botMessages[5] = BotReply
    /\ botTimers = <<>>
    /\ botInput = BlankInput
    /\ botEvent = "noop"

====
